---- MODULE Spec2Model ----
(***************************************************************************)
(* Model of the exam-centre map view (SeoulExamCentersMap): the CSV        *)
(* parser, the validator, the derivation layer (allTags / filtered /       *)
(* geojson), the data source resolver (public load effect, admin upload    *)
(* and paste) and the view sync with the MapLibre surface.                 *)
(*                                                                         *)
(* Representation.  A JavaScript string is a sequence of one-character     *)
(* strings.  A JavaScript value is a record [t, k, s, n]: t is the typeof  *)
(* tag, s the string payload, n the numeric payload in hundredths of a     *)
(* degree (37.43 is 3743), k the kind of a number (fin, nan, inf, ninf).   *)
(* Array indices are 1-based; an index of 0 stands for JavaScript's -1.    *)
(* The Korean tag literals are written in ASCII (the module's character    *)
(* set), see TAG_PRACTICAL and TAG_WRITTEN.                                *)
(***************************************************************************)
EXTENDS Integers, Sequences, FiniteSets, TLC

VARIABLES
    admin,       \* the admin flag, decided once (useMemo with no deps)
    centers,     \* state: the active record batch
    csvError,    \* state: the error shown in the upload panel, or NoError
    query,       \* state: the free-text query
    activeTags,  \* state: the active tag selection, in toggle order
    pending,     \* uploads whose file.text() has not settled yet
    nUploads,    \* number of uploads started so far
    loadPc,      \* position of the public load effect's async function
    jsonRes,     \* what the snapshot request produced (res / data)
    csvRes,      \* what the raw table request produced (csvRes / text)
    fetched,     \* the resources requested so far
    logged,      \* console.error was called by the public load effect
    mapLoaded,   \* the map's load event has fired (source 'centers' exists)
    srcData,     \* data of the source 'centers'
    viewport,    \* the last framing request sent to the map
    effectError, \* the Error thrown out of an effect uncaught, or NoError
    memoGeojson, \* the value useMemo holds for geojson.features
    pText,       \* parser harness: the input under test
    pRes,        \* parser harness: parseCSV's result on pText
    pVal,        \* parser harness: validateCenters' results on pRes
    lastStarted  \* upload harness: the text of the upload or paste started last

vars == <<admin, centers, csvError, query, activeTags, pending, nUploads,
          loadPc, jsonRes, csvRes, fetched, logged, mapLoaded, srcData,
          viewport, effectError, memoGeojson,
          pText, pRes, pVal, lastStarted>>

appVars == <<admin, centers, csvError, query, activeTags, pending, nUploads,
             loadPc, jsonRes, csvRes, fetched, logged, mapLoaded, srcData,
             viewport, effectError, memoGeojson>>

harnessVars == <<pText, pRes, pVal, lastStarted>>

-----------------------------------------------------------------------------
(* Characters and strings *)

QUOTE == "\""
COMMA == ","
NL == "\n"
SP == " "

\* String.prototype.trim strips white space and line terminators.
WhiteSpace == {" ", "\n", "\r", "\t"}

Digits == {"0", "1", "2", "3", "4", "5", "6", "7", "8", "9"}

DigitVal(c) ==
    CASE c = "0" -> 0 [] c = "1" -> 1 [] c = "2" -> 2 [] c = "3" -> 3
      [] c = "4" -> 4 [] c = "5" -> 5 [] c = "6" -> 6 [] c = "7" -> 7
      [] c = "8" -> 8 [] c = "9" -> 9

\* String.prototype.toLowerCase, on the letters the inputs use.
LowerChar(c) ==
    CASE c = "A" -> "a" [] c = "B" -> "b" [] c = "C" -> "c" [] c = "D" -> "d"
      [] c = "E" -> "e" [] c = "G" -> "g" [] c = "I" -> "i" [] c = "L" -> "l"
      [] c = "M" -> "m" [] c = "N" -> "n" [] c = "S" -> "s" [] c = "T" -> "t"
      [] OTHER -> c

ToLowerCase(s) == [i \in 1..Len(s) |-> LowerChar(s[i])]

\* s.trim(): the part of s from its first to its last character that is
\* not white space
Trim(s) ==
    LET keep == {i \in 1..Len(s) : s[i] \notin WhiteSpace} IN
    IF keep = {} THEN <<>>
    ELSE SubSeq(s, CHOOSE i \in keep : \A j \in keep : i <= j,
                   CHOOSE i \in keep : \A j \in keep : i >= j)

\* s.split(sep) for a set of one-character separators: the pieces between
\* consecutive separators, in order; always at least one piece.
Split(s, seps) ==
    LET cuts == {0, Len(s) + 1} \cup {i \in 1..Len(s) : s[i] \in seps}
        cut(k) == CHOOSE p \in cuts : Cardinality({x \in cuts : x < p}) = k
    IN [k \in 1..(Cardinality(cuts) - 1) |-> SubSeq(s, cut(k - 1) + 1, cut(k) - 1)]

RECURSIVE Flatten(_)
Flatten(ss) == IF ss = <<>> THEN <<>> ELSE Head(ss) \o Flatten(Tail(ss))

\* Array.prototype.join
RECURSIVE Join(_, _)
Join(ss, sep) ==
    IF ss = <<>> THEN <<>>
    ELSE IF Len(ss) = 1 THEN ss[1]
    ELSE ss[1] \o sep \o Join(Tail(ss), sep)

\* Array.prototype.findIndex for equality, 0 when absent
FindIndex(s, x) ==
    IF \E i \in 1..Len(s) : s[i] = x
    THEN CHOOSE i \in 1..Len(s) : s[i] = x /\ \A j \in 1..(i - 1) : s[j] # x
    ELSE 0

Range(s) == {s[i] : i \in 1..Len(s)}

\* String.prototype.includes
Includes(s, sub) ==
    \E i \in 0..(Len(s) - Len(sub)) : SubSeq(s, i + 1, i + Len(sub)) = sub

-----------------------------------------------------------------------------
(* JavaScript values *)

Str(s) == [t |-> "string", k |-> "", s |-> s, n |-> 0]
Num(v) == [t |-> "number", k |-> "fin", s |-> <<>>, n |-> v]
NaN == [t |-> "number", k |-> "nan", s |-> <<>>, n |-> 0]
Infinity == [t |-> "number", k |-> "inf", s |-> <<>>, n |-> 0]
NegInfinity == [t |-> "number", k |-> "ninf", s |-> <<>>, n |-> 0]
Undefined == [t |-> "undefined", k |-> "", s |-> <<>>, n |-> 0]

IsString(v) == v.t = "string"
IsNumber(v) == v.t = "number"
IsNaN(v) == v.t = "number" /\ v.k = "nan"

\* a >= b on numbers: false whenever an operand is NaN
NumGE(a, b) ==
    CASE a.k = "nan" \/ b.k = "nan" -> FALSE
      [] a.k = "inf" \/ b.k = "ninf" -> TRUE
      [] a.k = "ninf" \/ b.k = "inf" -> FALSE
      [] OTHER -> a.n >= b.n

NumLE(a, b) == NumGE(b, a)

AllDigits(s) == \A i \in 1..Len(s) : s[i] \in Digits

RECURSIVE DigitsValue(_)
DigitsValue(s) ==
    IF s = <<>> THEN 0
    ELSE 10 * DigitsValue(SubSeq(s, 1, Len(s) - 1)) + DigitVal(s[Len(s)])

\* The fraction's first two digits, as hundredths.
Hundredths(f) ==
    IF f = <<>> THEN 0
    ELSE IF Len(f) = 1 THEN 10 * DigitVal(f[1])
    ELSE 10 * DigitVal(f[1]) + DigitVal(f[2])

\* An unsigned decimal literal: digits, digits.digits, digits. or .digits
UnsignedNumber(s) ==
    LET parts == Split(s, {"."}) IN
    IF s = <<"I", "n", "f", "i", "n", "i", "t", "y">> THEN Infinity
    ELSE IF Len(parts) = 1 /\ parts[1] # <<>> /\ AllDigits(parts[1])
         THEN Num(100 * DigitsValue(parts[1]))
    ELSE IF Len(parts) = 2 /\ parts[1] \o parts[2] # <<>>
              /\ AllDigits(parts[1]) /\ AllDigits(parts[2])
         THEN Num(100 * DigitsValue(parts[1]) + Hundredths(parts[2]))
    ELSE NaN

Negate(v) ==
    CASE v.k = "fin" -> Num(0 - v.n)
      [] v.k = "inf" -> NegInfinity
      [] OTHER -> v

\* Number(string): white space is stripped, the empty string is 0, a decimal
\* literal is its value, anything else is NaN.
Number(s) ==
    LET t == Trim(s) IN
    IF t = <<>> THEN Num(0)
    ELSE IF Head(t) = "-" THEN Negate(UnsignedNumber(Tail(t)))
    ELSE IF Head(t) = "+" THEN UnsignedNumber(Tail(t))
    ELSE UnsignedNumber(t)

-----------------------------------------------------------------------------
(* Record schema, assert and the validator *)

INITIAL_CENTERS == <<>>

\* An Error and its message: the message's fixed text and the value the
\* template interpolates (`lat out of bounds: ${c.id}`).
Err(text, ref) == [kind |-> text, ref |-> ref]
NoError == Err("null", Undefined)

\* assert(condition, message) throws Error("Test failed: " + message)
AssertionError(text, ref) == Err("Test failed: " \o text, ref)

\* rows[0].split on an empty rows array: rows[0] is undefined
TypeErrorSplit == Err("TypeError: Cannot read properties of undefined (reading 'split')", Undefined)

\* [[west, south], [east, north]] in hundredths of a degree
TARGET_BOUNDS ==
    [def |-> TRUE, w |-> Num(12696), s |-> Num(3743), e |-> Num(12718), n |-> Num(3759)]

\* validateCenters(data, undefined)
NoBounds ==
    [def |-> FALSE, w |-> Undefined, s |-> Undefined, e |-> Undefined, n |-> Undefined]

\* A callback that lacks the last assert (the lng bound).
CheckCenterLngUnchecked(c, bounds) ==
    IF ~(IsString(c.id) /\ Len(c.id.s) > 0)
    THEN AssertionError("invalid id for ", c.name)
    ELSE IF ~(IsString(c.name) /\ Len(c.name.s) > 0)
    THEN AssertionError("invalid name for ", c.id)
    ELSE IF ~(IsNumber(c.lat) /\ ~IsNaN(c.lat))
    THEN AssertionError("lat must be number: ", c.id)
    ELSE IF ~(IsNumber(c.lng) /\ ~IsNaN(c.lng))
    THEN AssertionError("lng must be number: ", c.id)
    ELSE IF bounds.def /\ ~(NumGE(c.lat, bounds.s) /\ NumLE(c.lat, bounds.n))
    THEN AssertionError("lat out of bounds: ", c.id)
    ELSE NoError

\* A callback whose range checks use > and < (the bound's edges excluded).
CheckCenterExclusive(c, bounds) ==
    IF ~(IsString(c.id) /\ Len(c.id.s) > 0)
    THEN AssertionError("invalid id for ", c.name)
    ELSE IF ~(IsString(c.name) /\ Len(c.name.s) > 0)
    THEN AssertionError("invalid name for ", c.id)
    ELSE IF ~(IsNumber(c.lat) /\ ~IsNaN(c.lat))
    THEN AssertionError("lat must be number: ", c.id)
    ELSE IF ~(IsNumber(c.lng) /\ ~IsNaN(c.lng))
    THEN AssertionError("lng must be number: ", c.id)
    ELSE IF bounds.def /\ (NumLE(c.lat, bounds.s) \/ NumGE(c.lat, bounds.n))
    THEN AssertionError("lat out of bounds: ", c.id)
    ELSE IF bounds.def /\ (NumLE(c.lng, bounds.w) \/ NumGE(c.lng, bounds.e))
    THEN AssertionError("lng out of bounds: ", c.id)
    ELSE NoError

\* The asserts of one forEach callback, in order; NoError when all pass.
CheckCenter(c, bounds) ==
    IF ~(IsString(c.id) /\ Len(c.id.s) > 0)
    THEN AssertionError("invalid id for ", c.name)
    ELSE IF ~(IsString(c.name) /\ Len(c.name.s) > 0)
    THEN AssertionError("invalid name for ", c.id)
    ELSE IF ~(IsNumber(c.lat) /\ ~IsNaN(c.lat))
    THEN AssertionError("lat must be number: ", c.id)
    ELSE IF ~(IsNumber(c.lng) /\ ~IsNaN(c.lng))
    THEN AssertionError("lng must be number: ", c.id)
    ELSE IF bounds.def /\ ~(NumGE(c.lat, bounds.s) /\ NumLE(c.lat, bounds.n))
    THEN AssertionError("lat out of bounds: ", c.id)
    ELSE IF bounds.def /\ ~(NumGE(c.lng, bounds.w) /\ NumLE(c.lng, bounds.e))
    THEN AssertionError("lng out of bounds: ", c.id)
    ELSE NoError

\* A loop that runs every callback and throws the last Error raised.
RECURSIVE validateLoopLastError(_, _, _)
validateLoopLastError(data, i, bounds) ==
    IF i > Len(data) THEN NoError
    ELSE IF validateLoopLastError(data, i + 1, bounds) # NoError
         THEN validateLoopLastError(data, i + 1, bounds)
    ELSE CheckCenter(data[i], bounds)

\* data.forEach: the first throwing callback ends the call.
RECURSIVE validateLoop(_, _, _)
validateLoop(data, i, bounds) ==
    IF i > Len(data) THEN NoError
    ELSE IF CheckCenter(data[i], bounds) # NoError THEN CheckCenter(data[i], bounds)
    ELSE validateLoop(data, i + 1, bounds)

\* validateCenters(data, bounds): the Error thrown, or NoError
validateCenters(data, bounds) == validateLoop(data, 1, bounds)

-----------------------------------------------------------------------------
(* parseCSV, the quote-aware variant *)

S_id == <<"i", "d">>
S_name == <<"n", "a", "m", "e">>
S_address == <<"a", "d", "d", "r", "e", "s", "s">>
S_lat == <<"l", "a", "t">>
S_lng == <<"l", "n", "g">>
S_phone == <<"p", "h", "o", "n", "e">>
S_hours == <<"h", "o", "u", "r", "s">>
S_note == <<"n", "o", "t", "e">>
S_tags == <<"t", "a", "g", "s">>

\* if (ch === '"' && text[i+1] === '"') at index i
IsDoubledQuote(text, i) ==
    text[i] = QUOTE /\ i + 1 <= Len(text) /\ text[i + 1] = QUOTE

\* One iteration of the first loop (lines 56-62) at index i.  skip is set
\* by the i++ of the doubled-quote branch.
rowsStep(text, st, i) ==
    CASE IsDoubledQuote(text, i) ->
           [st EXCEPT !.cur = Append(@, QUOTE), !.skip = TRUE]
      [] text[i] = QUOTE /\ ~IsDoubledQuote(text, i) ->
           [st EXCEPT !.inQ = ~@]
      [] text[i] = NL /\ ~st.inQ ->
           [st EXCEPT !.rows = Append(@, st.cur), !.cur = <<>>]
      [] OTHER ->
           [st EXCEPT !.cur = Append(@, text[i])]

\* The iterations lo..hi of the first loop, in order, from state st: an
\* index that follows a doubled quote is passed over; a longer range is run
\* as its first half, then its second half.  The loop cuts the text into
\* rows at the newlines outside quotes; it drops every quote that toggles
\* and keeps one quote of each doubled pair.
RECURSIVE rowsLoop(_, _, _, _)
rowsLoop(text, lo, hi, st) ==
    CASE lo > hi -> st
      [] lo <= hi /\ st.skip ->
           rowsLoop(text, lo + 1, hi, [st EXCEPT !.skip = FALSE])
      [] lo = hi /\ ~st.skip -> rowsStep(text, st, lo)
      [] OTHER ->
           rowsLoop(text, ((lo + hi) \div 2) + 1, hi,
                    rowsLoop(text, lo, (lo + hi) \div 2, st))

\* A first loop that forgets the quote state at a newline.
splitRowsLineBased(text) ==
    LET lines == Split(text, {NL}) IN
    SelectSeq([i \in 1..Len(lines) |-> SelectSeq(lines[i], LAMBDA c : c # QUOTE)],
              LAMBDA l : Trim(l) # <<>>)

\* The rows parseCSV works on (lines 53-61): the first loop, then the
\* remainder pushed when it is not blank.
splitRows(text) ==
    LET r == rowsLoop(text, 1, Len(text),
                      [rows |-> <<>>, cur |-> <<>>, inQ |-> FALSE, skip |-> FALSE])
    IN IF Len(Trim(r.cur)) > 0 THEN Append(r.rows, r.cur) ELSE r.rows

\* One iteration of splitRow's loop (lines 75-81) at index i
cellsStep(r, st, i) ==
    CASE IsDoubledQuote(r, i) ->
           [st EXCEPT !.cell = Append(@, QUOTE), !.skip = TRUE]
      [] r[i] = QUOTE /\ ~IsDoubledQuote(r, i) ->
           [st EXCEPT !.q = ~@]
      [] r[i] = COMMA /\ ~st.q ->
           [st EXCEPT !.out = Append(@, Trim(st.cell)), !.cell = <<>>]
      [] OTHER ->
           [st EXCEPT !.cell = Append(@, r[i])]

\* The iterations lo..hi of splitRow's loop, in order, from state st
RECURSIVE cellsLoop(_, _, _, _)
cellsLoop(r, lo, hi, st) ==
    CASE lo > hi -> st
      [] lo <= hi /\ st.skip ->
           cellsLoop(r, lo + 1, hi, [st EXCEPT !.skip = FALSE])
      [] lo = hi /\ ~st.skip -> cellsStep(r, st, lo)
      [] OTHER ->
           cellsLoop(r, ((lo + hi) \div 2) + 1, hi,
                     cellsLoop(r, lo, (lo + hi) \div 2, st))

\* splitRow(r), lines 72-84
splitRow(r) ==
    LET st == cellsLoop(r, 1, Len(r),
                        [out |-> <<>>, cell |-> <<>>, q |-> FALSE, skip |-> FALSE])
    IN Append(st.out, Trim(st.cell))

\* A header that is trimmed but not lower-cased.
headerCaseSensitive(row) ==
    LET hs == Split(row, {COMMA}) IN [i \in 1..Len(hs) |-> Trim(hs[i])]

\* rows[0].split(",").map(h => h.trim().toLowerCase())
headerOf(row) ==
    LET hs == Split(row, {COMMA}) IN [i \in 1..Len(hs) |-> ToLowerCase(Trim(hs[i]))]

\* val(i): (i >= 0 ? (cells[i] ?? "").trim() : "")
val(cells, i) ==
    IF i >= 1 THEN Trim(IF i <= Len(cells) THEN cells[i] ELSE <<>>) ELSE <<>>

\* A tag split whose pattern is /[;,]/.
tagsOfNoBar(s) ==
    LET parts == Split(s, {";", ","}) IN
    SelectSeq([i \in 1..Len(parts) |-> Trim(parts[i])], LAMBDA t : t # <<>>)

\* (val(tagsI) || "").split(/[;|,]/).map(t => t.trim()).filter(Boolean)
tagsOf(s) ==
    LET parts == Split(s, {";", "|", ","}) IN
    SelectSeq([i \in 1..Len(parts) |-> Trim(parts[i])], LAMBDA t : t # <<>>)

\* The record pushed for one data row (lines 89-105)
recordOf(r, header) ==
    LET cells == splitRow(r)
        col(k) == val(cells, FindIndex(header, k))
    IN [id |-> Str(col(S_id)), name |-> Str(col(S_name)),
        address |-> Str(col(S_address)),
        lat |-> Number(col(S_lat)), lng |-> Number(col(S_lng)),
        phone |-> Str(col(S_phone)), hours |-> Str(col(S_hours)),
        note |-> Str(col(S_note)), tags |-> tagsOf(col(S_tags))]

\* for (const r of rows.slice(1)) { if (!r.trim()) continue; ... }
recordsOf(rows, header) ==
    LET data == SelectSeq(Tail(rows), LAMBDA r : Trim(r) # <<>>) IN
    [i \in 1..Len(data) |-> recordOf(data[i], header)]

\* parseCSV(text): [err |-> the Error thrown or NoError, out |-> the records]
parseCSV(text) ==
    LET rows == splitRows(text) IN
    IF rows = <<>> THEN [err |-> TypeErrorSplit, out |-> <<>>]
    ELSE LET header == headerOf(rows[1]) IN
         IF ~(FindIndex(header, S_id) >= 1 /\ FindIndex(header, S_name) >= 1
              /\ FindIndex(header, S_lat) >= 1 /\ FindIndex(header, S_lng) >= 1)
         THEN [err |-> AssertionError("CSV header must include id,name,lat,lng", Undefined),
               out |-> <<>>]
         ELSE [err |-> NoError, out |-> recordsOf(rows, header)]

-----------------------------------------------------------------------------
(* Derivation layer: allTags, filtered, geojson *)

\* The literals "실기(작업)" and "필기" (lines 174, 270), romanised.
TAG_PRACTICAL == <<"s", "g", "(", "j", ")">>
TAG_WRITTEN == <<"p", "g">>
TYPE_OTHER == <<"e", "t", "c">>

\* The characters of the model in code-unit order (Array.prototype.sort
\* compares strings by UTF-16 code units).
CharOrder ==
    <<"\t", "\n", "\r", " ", "\"", "(", ")", "+", ",", "-", ".",
      "0", "1", "2", "3", "4", "5", "6", "7", "8", "9", ";",
      "A", "B", "C", "D", "E", "G", "I", "L", "M", "N", "S", "T",
      "a", "b", "c", "d", "e", "f", "g", "h", "i", "j", "l", "m", "n",
      "o", "p", "r", "s", "t", "u", "x", "y", "|">>

CodeUnit(c) == FindIndex(CharOrder, c)

\* a < b in the default sort order
RECURSIVE StrLess(_, _)
StrLess(a, b) ==
    IF b = <<>> THEN FALSE
    ELSE IF a = <<>> THEN TRUE
    ELSE IF Head(a) = Head(b) THEN StrLess(Tail(a), Tail(b))
    ELSE CodeUnit(Head(a)) < CodeUnit(Head(b))

\* Array.from(set).sort()
RECURSIVE SortSet(_)
SortSet(S) ==
    IF S = {} THEN <<>>
    ELSE LET m == CHOOSE x \in S : \A y \in S \ {x} : StrLess(x, y)
         IN <<m>> \o SortSet(S \ {m})

\* A tag list collected without trim().
allTagsUntrimmed(cs) ==
    SortSet(UNION {{cs[i].tags[j] : j \in 1..Len(cs[i].tags)} : i \in 1..Len(cs)})

\* allTags (lines 152-156): the trimmed tags of every record, sorted
allTags(cs) ==
    SortSet(UNION {{Trim(cs[i].tags[j]) : j \in 1..Len(cs[i].tags)} : i \in 1..Len(cs)})

\* A value as Array.prototype.join writes it: undefined is the empty string.
JoinText(v) == IF IsString(v) THEN v.s ELSE <<>>

\* The joined string without toLowerCase().
haystackCaseSensitive(c) ==
    Join(<<JoinText(c.name), JoinText(c.address), JoinText(c.note)>> \o c.tags, <<SP>>)

\* [c.name, c.address, c.note, ...(c.tags || [])].join(" ").toLowerCase()
haystack(c) ==
    ToLowerCase(Join(<<JoinText(c.name), JoinText(c.address), JoinText(c.note)>>
                     \o c.tags, <<SP>>))

\* A filter whose tag stage keeps the records that carry every active tag.
filteredEveryTag(cs, qry, active) ==
    LET q == ToLowerCase(Trim(qry))
        byText == IF q # <<>>
                  THEN SelectSeq(cs, LAMBDA c : Includes(haystack(c), q))
                  ELSE cs
    IN IF Len(active) > 0
       THEN SelectSeq(byText, LAMBDA c : Range(active) \subseteq Range(c.tags))
       ELSE byText

\* filtered (lines 162-168)
filtered(cs, qry, active) ==
    LET q == ToLowerCase(Trim(qry))
        byText == IF q # <<>>
                  THEN SelectSeq(cs, LAMBDA c : Includes(haystack(c), q))
                  ELSE cs
    IN IF Len(active) > 0
       THEN SelectSeq(byText,
                      LAMBDA c : \E j \in 1..Len(c.tags) : c.tags[j] \in Range(active))
       ELSE byText

\* hasTag(c, t), line 112
hasTag(c, t) == \E j \in 1..Len(c.tags) : Trim(c.tags[j]) = t

\* A derivation that tests the written literal first.
examTypeWrittenFirst(c) ==
    IF hasTag(c, TAG_WRITTEN) THEN TAG_WRITTEN
    ELSE IF hasTag(c, TAG_PRACTICAL) THEN TAG_PRACTICAL
    ELSE TYPE_OTHER

\* examType of a feature, line 174
examTypeOf(c) ==
    IF hasTag(c, TAG_PRACTICAL) THEN TAG_PRACTICAL
    ELSE IF hasTag(c, TAG_WRITTEN) THEN TAG_WRITTEN
    ELSE TYPE_OTHER

\* A feature whose coordinates are written [lat, lng].
featureLatLng(c) ==
    [id |-> c.id, name |-> c.name, address |-> c.address, phone |-> c.phone,
     hours |-> c.hours, note |-> c.note,
     tags |-> Join(c.tags, <<COMMA, SP>>), examType |-> examTypeOf(c),
     coordinates |-> <<c.lat, c.lng>>]

\* One feature of geojson.features, lines 175-182
featureOf(c) ==
    [id |-> c.id, name |-> c.name, address |-> c.address, phone |-> c.phone,
     hours |-> c.hours, note |-> c.note,
     tags |-> Join(c.tags, <<COMMA, SP>>), examType |-> examTypeOf(c),
     coordinates |-> <<c.lng, c.lat>>]

\* geojson.features (lines 171-184) for a filtered list
features(fs) == [i \in 1..Len(fs) |-> featureOf(fs[i])]

\* The projection of a state of the view
geojson(cs, qry, active) == features(filtered(cs, qry, active))

coordsOf(fts) == [i \in 1..Len(fts) |-> fts[i].coordinates]

-----------------------------------------------------------------------------
(* Inputs: tabular texts written from a header and rows of cell values *)

MaxRows == 2      \* data rows per text in the parser harness
MaxUploads == 2   \* uploads started in one session

\* A cell as a CSV writer emits it: quoted when it holds a comma, a quote or
\* a newline, with every quote doubled.
DoubleQuotes(v) ==
    Flatten([i \in 1..Len(v) |-> IF v[i] = QUOTE THEN <<QUOTE, QUOTE>> ELSE <<v[i]>>])

EncodeCell(v) ==
    IF \E i \in 1..Len(v) : v[i] \in {COMMA, QUOTE, NL}
    THEN <<QUOTE>> \o DoubleQuotes(v) \o <<QUOTE>>
    ELSE v

CellOf(row, key) == IF key \in DOMAIN row THEN row[key] ELSE <<>>

\* A header column: the label written in the file and the field it names.
Col(label, key) == [label |-> label, key |-> key]

EncodeHeader(hdr) == Join([i \in 1..Len(hdr) |-> EncodeCell(hdr[i].label)], <<COMMA>>)

EncodeRow(hdr, row) ==
    IF row.kind = "blank" THEN <<SP>>
    ELSE Join([i \in 1..Len(hdr) |-> EncodeCell(CellOf(row, hdr[i].key))], <<COMMA>>)

EncodeText(hdr, rows) ==
    Join(<<EncodeHeader(hdr)>> \o [i \in 1..Len(rows) |-> EncodeRow(hdr, rows[i])], <<NL>>)

Input(hdr, rows) == [hdr |-> hdr, rows |-> rows, text |-> EncodeText(hdr, rows)]

Row(id, name, lat, lng, tags) ==
    [kind |-> "data", id |-> id, name |-> name, lat |-> lat, lng |-> lng, tags |-> tags]

BlankRow == [kind |-> "blank"]

V_c1 == <<"c", "1">>
V_c2 == <<"c", "2">>
V_A == <<"A">>
V_B == <<"B">>
V_AcommaB == <<"A", ",", "B">>
V_AnlB == <<"A", "\n", "B">>
V_AquoteB == <<"A", "\"", "B">>
V_padA == <<" ", "A", " ">>
V_3750 == <<"3", "7", ".", "5", "0">>
V_3743 == <<"3", "7", ".", "4", "3">>
V_200 == <<"2", "0", "0">>
V_abc == <<"a", "b", "c">>
V_12705 == <<"1", "2", "7", ".", "0", "5">>
V_12718 == <<"1", "2", "7", ".", "1", "8">>
V_12695 == <<"1", "2", "6", ".", "9", "5">>
V_tagsBoth == TAG_WRITTEN \o <<";">> \o TAG_PRACTICAL
V_tagsPadded == <<" ">> \o TAG_WRITTEN \o <<" ", "|", ";", " ", "x">>

R_ok1 == Row(V_c1, V_A, V_3750, V_12705, V_tagsBoth)
R_ok2 == Row(V_c2, V_B, V_3743, V_12718, <<>>)
R_okPad == Row(V_c2, V_padA, V_3750, V_12705, V_tagsPadded)
R_commaName == Row(V_c1, V_AcommaB, V_3750, V_12705, TAG_WRITTEN)
R_nlName == Row(V_c1, V_AnlB, V_3750, V_12705, TAG_WRITTEN)
R_quoteName == Row(V_c1, V_AquoteB, V_3750, V_12705, TAG_WRITTEN)
R_lat200 == Row(V_c1, V_A, V_200, V_12705, <<>>)
R_latEmpty == Row(V_c1, V_A, <<>>, V_12705, <<>>)
R_latBlank == Row(V_c1, V_A, <<SP>>, V_12705, <<>>)
R_lngAbc == Row(V_c1, V_A, V_3750, V_abc, <<>>)
R_lngWest == Row(V_c1, V_A, V_3750, V_12695, <<>>)
R_noId == Row(<<>>, V_A, V_3750, V_12705, <<>>)
R_noName == Row(V_c1, <<>>, V_3750, V_12705, <<>>)
R_noNameLatAbc == Row(V_c2, <<>>, V_abc, V_12705, <<>>)
R_quotedTags == Row(V_c1, V_A, V_3750, V_12705,
                    <<QUOTE>> \o TAG_WRITTEN \o <<COMMA, "x", QUOTE>>)
R_lat200LngAbc == Row(V_c2, V_B, V_200, V_abc, <<>>)

HarnessRows ==
    {R_ok1, R_ok2, R_okPad, R_commaName, R_nlName, R_quoteName, R_lat200,
     R_latEmpty, R_latBlank, R_lngAbc, R_lngWest, R_noId, R_noName,
     R_noNameLatAbc, R_lat200LngAbc, R_quotedTags, BlankRow}

H_full == <<Col(S_id, "id"), Col(S_name, "name"), Col(S_lat, "lat"),
            Col(S_lng, "lng"), Col(S_tags, "tags")>>
H_min == <<Col(S_id, "id"), Col(S_name, "name"), Col(S_lat, "lat"), Col(S_lng, "lng")>>
H_case == <<Col(<<" ", "I", "D">>, "id"), Col(<<"N", "a", "m", "e", " ">>, "name"),
            Col(<<"L", "A", "T">>, "lat"), Col(<<"L", "n", "g">>, "lng"),
            Col(<<"T", "A", "G", "S">>, "tags")>>
H_perm == <<Col(S_tags, "tags"), Col(S_lng, "lng"), Col(S_lat, "lat"),
            Col(S_name, "name"), Col(S_id, "id")>>
H_noLat == <<Col(S_id, "id"), Col(S_name, "name"), Col(S_lng, "lng"), Col(S_tags, "tags")>>
H_noName == <<Col(S_id, "id"), Col(S_lat, "lat"), Col(S_lng, "lng")>>
H_idx == <<Col(<<"i", "d", "x">>, "id"), Col(S_name, "name"), Col(S_lat, "lat"),
           Col(S_lng, "lng")>>
H_none == <<>>
\* id,name,address,lat,lng,phone,hours,note,tags (the textarea's placeholder, line 359)
H_all == <<Col(S_id, "id"), Col(S_name, "name"), Col(S_address, "address"),
           Col(S_lat, "lat"), Col(S_lng, "lng"), Col(S_phone, "phone"),
           Col(S_hours, "hours"), Col(S_note, "note"), Col(S_tags, "tags")>>

HarnessHeaders ==
    {H_full, H_min, H_case, H_perm, H_noLat, H_noName, H_idx, H_none, H_all}

RowSeqs(S, n) == UNION {[1..k -> S] : k \in 0..n}

HarnessInputs == {Input(h, rs) : h \in HarnessHeaders, rs \in RowSeqs(HarnessRows, MaxRows)}

-----------------------------------------------------------------------------
(* The inputs of a session *)

\* Texts pasted, uploaded or served as data/centers.csv
AppInputs ==
    {Input(H_full, <<R_ok1, R_ok2>>),
     Input(H_full, <<R_ok2, R_lat200>>),
     Input(H_full, <<R_ok2, R_latEmpty>>),
     Input(H_full, <<>>),
     Input(H_noLat, <<R_ok1>>)}

\* A File: file.text() resolves with its text or rejects.
File(readable, inp) == [readable |-> readable, inp |-> inp]

UploadFiles ==
    {File(TRUE, Input(H_full, <<R_ok2, R_ok1>>)),
     File(TRUE, Input(H_full, <<R_ok1, R_lngWest>>)),
     File(FALSE, Input(H_none, <<>>))}

NotReadableError == Err("NotReadableError", Undefined)

\* A Center of a published snapshot (the build helper writes undefined for
\* an empty optional field and for a coordinate that is not a number).
SnapCenter(id, name, lat, lng, tags) ==
    [id |-> id, name |-> name, address |-> Undefined, lat |-> lat, lng |-> lng,
     phone |-> Undefined, hours |-> Undefined, note |-> Undefined, tags |-> tags]

Snap_ok == <<SnapCenter(Str(V_c1), Str(V_A), Num(3750), Num(12705), <<TAG_WRITTEN>>)>>
Snap_far == <<SnapCenter(Str(V_c1), Str(V_A), Num(3750), Num(12705), <<TAG_WRITTEN>>),
              SnapCenter(Str(V_c2), Str(V_B), Num(20000), Num(0), <<<<" ", "p", "g">>>>)>>
Snap_noLat == <<SnapCenter(Str(V_c1), Str(V_A), Num(3750), Num(12705), <<>>),
                SnapCenter(Str(V_c2), Str(V_B), Undefined, Num(12705), <<>>)>>

\* What the request for centers.json can produce
Response(kind, data) == [kind |-> kind, data |-> data]

JsonResponses ==
    {Response("rejected", <<>>),      \* fetch rejects
     Response("notOk", <<>>),         \* res.ok is false
     Response("malformed", <<>>),     \* res.json() rejects
     Response("notArray", <<>>),      \* the document is not an array
     Response("array", <<>>),
     Response("array", Snap_ok),
     Response("array", Snap_far),
     Response("array", Snap_noLat)}

\* What the request for data/centers.csv can produce
CsvResponses ==
    {Response("rejected", Input(H_none, <<>>)), Response("notOk", Input(H_none, <<>>))}
    \cup {Response("text", inp) :
             inp \in AppInputs \cup {Input(H_full, <<R_commaName>>), Input(H_none, <<>>),
                                   Input(H_full, <<R_ok1, R_noId>>)}}

NoResponse == Response("none", <<>>)

Queries == {<<>>, <<"b">>, <<SP>>}

-----------------------------------------------------------------------------
(* The view: state, handlers, effects *)

\* map.fitBounds(TARGET_BOUNDS, { padding: 20, duration: 0 })
FitTarget == [kind |-> "target", padding |-> 20, coords |-> <<>>]

\* fitToData(map, coords), lines 113-118, for a non-empty coords
FitData(coords) == [kind |-> "data", padding |-> 40, coords |-> coords]

\* A try block that calls setCenters before validateCenters.
tryBlockSetsFirst(text, bounds) ==
    LET p == parseCSV(text) IN
    IF p.err # NoError THEN [set |-> FALSE, out |-> <<>>, err |-> p.err]
    ELSE [set |-> TRUE, out |-> p.out, err |-> validateCenters(p.out, bounds)]

\* The body of the try block of onUploadCSV / onPasteCSV (lines 189, 194):
\* parse, validate, and only then setCenters.  set says whether setCenters
\* is reached, err is the Error caught (NoError when none is thrown).
tryBlock(text, bounds) ==
    LET p == parseCSV(text) IN
    IF p.err # NoError THEN [set |-> FALSE, out |-> <<>>, err |-> p.err]
    ELSE IF validateCenters(p.out, bounds) # NoError
         THEN [set |-> FALSE, out |-> <<>>, err |-> validateCenters(p.out, bounds)]
         ELSE [set |-> TRUE, out |-> p.out, err |-> NoError]

\* filtered returns the centers array itself when no filter applies
IsUnfiltered(qry, active) == Trim(qry) = <<>> /\ Len(active) = 0

\* A memo whose dependencies lack activeTags.
GeojsonChangedIgnoresTags(centersSet, qry, active, qry2, active2) ==
    \/ centersSet
    \/ /\ qry # qry2
       /\ ~(IsUnfiltered(qry, active) /\ IsUnfiltered(qry2, active2))

\* useMemo: geojson is a new object after a render in which filtered is a
\* new array: centers was set, or a filter applies before or after.
GeojsonChanged(centersSet, qry, active, qry2, active2) ==
    \/ centersSet
    \/ /\ <<qry, active>> # <<qry2, active2>>
       /\ ~(IsUnfiltered(qry, active) /\ IsUnfiltered(qry2, active2))

\* new maplibregl.LngLatBounds() extended by no coordinate, handed to
\* map.fitBounds
TypeErrorFitBounds == Err("Error: Invalid LngLat object: (NaN, NaN)", Undefined)

\* src.setData on the undefined result of map.getSource("centers")
TypeErrorSetData ==
    Err("TypeError: Cannot read properties of undefined (reading 'setData')", Undefined)

\* A fitToData without the early return on an empty coords.
fitToDataUnguarded(coords) ==
    IF Len(coords) = 0
    THEN [view |-> viewport, err |-> TypeErrorFitBounds]
    ELSE [view |-> FitData(coords), err |-> NoError]

\* fitToData(map, coords), lines 113-118: the framing the map is left with
\* and the Error thrown (none: an empty coords returns at line 114)
fitToData(coords) ==
    IF Len(coords) = 0
    THEN [view |-> viewport, err |-> NoError]
    ELSE [view |-> FitData(coords), err |-> NoError]

\* A sync effect that calls setData only when the projection has a feature.
SyncEffectSkipsEmpty(changed, gj) ==
    IF changed /\ mapLoaded /\ Len(gj) > 0
    THEN /\ srcData' = gj
         /\ viewport' = FitData(coordsOf(gj))
         /\ effectError' = effectError
    ELSE UNCHANGED <<srcData, viewport, effectError>>

\* A sync effect without the if (src) guard.
SyncEffectUnguarded(changed, gj) ==
    IF changed /\ mapLoaded
    THEN /\ srcData' = gj
         /\ viewport' = IF Len(gj) > 0 THEN fitToData(coordsOf(gj)).view ELSE viewport
         /\ effectError' = effectError
    ELSE IF changed
    THEN /\ effectError' = TypeErrorSetData
         /\ UNCHANGED <<srcData, viewport>>
    ELSE UNCHANGED <<srcData, viewport, effectError>>

\* The geojson sync effect (lines 306-310), run after a render whose
\* geojson is gj; changed says whether the dependency changed.  Before the
\* load event map.getSource("centers") is undefined and the effect returns.
SyncEffect(changed, gj) ==
    IF changed /\ mapLoaded
    THEN /\ srcData' = gj
         /\ viewport' = IF Len(gj) > 0 THEN fitToData(coordsOf(gj)).view ELSE viewport
         /\ effectError' = IF Len(gj) > 0 THEN fitToData(coordsOf(gj)).err ELSE effectError
    ELSE UNCHANGED <<srcData, viewport, effectError>>

\* The render after a state change: useMemo recomputes geojson when its
\* dependency changed (gj is the recomputed value), then the effects run.
Render(changed, gj) ==
    /\ memoGeojson' = IF changed THEN gj ELSE memoGeojson
    /\ SyncEffect(changed, gj)

\* The geojson the map's load handler closes over: the map init effect runs
\* once (deps [TARGET_BOUNDS]), so its handler holds the first render's value.
loadHandlerGeojson == geojson(INITIAL_CENTERS, <<>>, <<>>)

\* No upload or paste was started yet
NoneStarted == [started |-> FALSE, inp |-> Input(H_none, <<>>)]

NotParsed == [done |-> FALSE, err |-> NoError, out |-> <<>>]
NotValidated == [done |-> FALSE, bounded |-> NoError, unbounded |-> NoError]

\* A first render whose public load effect lacks the if (admin) return.
InitViewLoadsAlways ==
    /\ admin \in BOOLEAN
    /\ centers = INITIAL_CENTERS
    /\ csvError = NoError
    /\ query = <<>>
    /\ activeTags = <<>>
    /\ pending = {}
    /\ nUploads = 0
    /\ loadPc = "json"
    /\ jsonRes = NoResponse
    /\ csvRes = NoResponse
    /\ fetched = {"centers.json"}
    /\ logged = FALSE
    /\ mapLoaded = FALSE
    /\ srcData = <<>>
    /\ viewport = FitTarget
    /\ effectError = NoError
    /\ memoGeojson = geojson(centers, <<>>, <<>>)

\* State after the first render and its effects: the map object exists and,
\* in public mode, centers.json has been requested.
InitView ==
    /\ admin \in BOOLEAN
    /\ centers = INITIAL_CENTERS
    /\ csvError = NoError
    /\ query = <<>>
    /\ activeTags = <<>>
    /\ pending = {}
    /\ nUploads = 0
    /\ loadPc = IF admin THEN "idle" ELSE "json"
    /\ jsonRes = NoResponse
    /\ csvRes = NoResponse
    /\ fetched = IF admin THEN {} ELSE {"centers.json"}
    /\ logged = FALSE
    /\ mapLoaded = FALSE
    /\ srcData = <<>>
    /\ viewport = FitTarget
    /\ effectError = NoError
    /\ memoGeojson = geojson(centers, <<>>, <<>>)

Init ==
    /\ InitView
    /\ pText = Input(H_none, <<>>)
    /\ pRes = NotParsed
    /\ pVal = NotValidated
    /\ lastStarted = NoneStarted

\* The try block's outcome for each text the admin can paste and for each
\* readable file (it depends on the text alone).
PasteOutcome == [inp \in AppInputs |-> tryBlock(inp.text, TARGET_BOUNDS)]
UploadOutcome ==
    [f \in {g \in UploadFiles : g.readable} |-> tryBlock(f.inp.text, TARGET_BOUNDS)]

\* onPasteCSV(text), lines 192-196
onPasteCSV(inp) ==
    LET r == PasteOutcome[inp] IN
    /\ admin
    /\ csvError' = r.err
    /\ centers' = IF r.set THEN r.out ELSE centers
    /\ Render(r.set, geojson(centers', query, activeTags))
    /\ UNCHANGED <<admin, query, activeTags, pending, nUploads, loadPc, jsonRes, csvRes,
                   fetched, logged, mapLoaded>>

\* onUploadCSV(file) up to its await, lines 187-189
onUploadCSV(f) ==
    /\ admin
    /\ nUploads < MaxUploads
    /\ csvError' = NoError
    /\ nUploads' = nUploads + 1
    /\ pending' = pending \cup {[n |-> nUploads + 1, file |-> f]}
    /\ UNCHANGED <<admin, centers, query, activeTags, loadPc, jsonRes, csvRes, fetched,
                   logged, mapLoaded, srcData, viewport, effectError, memoGeojson>>

\* onUploadCSV after file.text() settles, lines 189-190
uploadSettles(u) ==
    LET r == IF u.file.readable
             THEN UploadOutcome[u.file]
             ELSE [set |-> FALSE, out |-> <<>>, err |-> NotReadableError]
    IN
    /\ u \in pending
    /\ pending' = pending \ {u}
    /\ csvError' = IF r.err # NoError THEN r.err ELSE csvError
    /\ centers' = IF r.set THEN r.out ELSE centers
    /\ Render(r.set, geojson(centers', query, activeTags))
    /\ UNCHANGED <<admin, query, activeTags, nUploads, loadPc, jsonRes, csvRes, fetched,
                   logged, mapLoaded>>

\* setQuery from the search box, line 366
setQuery(q) ==
    /\ q # query
    /\ query' = q
    /\ Render(GeojsonChanged(FALSE, query, activeTags, q, activeTags),
                  geojson(centers, q, activeTags))
    /\ UNCHANGED <<admin, centers, csvError, activeTags, pending, nUploads, loadPc,
                   jsonRes, csvRes, fetched, logged, mapLoaded>>

\* An updater that appends without testing prev.includes(t).
toggledAlwaysAppends(prev, t) == Append(prev, t)

\* prev.includes(t) ? prev.filter(x => x !== t) : [...prev, t], line 158
toggled(prev, t) ==
    IF t \in Range(prev) THEN SelectSeq(prev, LAMBDA x : x # t) ELSE Append(prev, t)

\* toggleTag(t) from a tag button, lines 335-340: one button per tag of allTags
toggleTag(t) ==
    /\ t \in Range(allTags(centers))
    /\ activeTags' = toggled(activeTags, t)
    /\ Render(GeojsonChanged(FALSE, query, activeTags, query, activeTags'),
                  geojson(centers, query, activeTags'))
    /\ UNCHANGED <<admin, centers, csvError, query, pending, nUploads, loadPc,
                   jsonRes, csvRes, fetched, logged, mapLoaded>>

\* clearTags from the reset button, lines 341-343
clearTags ==
    /\ Len(allTags(centers)) # 0
    /\ Len(activeTags) > 0
    /\ activeTags' = <<>>
    /\ Render(GeojsonChanged(FALSE, query, activeTags, query, <<>>),
                  geojson(centers, query, <<>>))
    /\ UNCHANGED <<admin, centers, csvError, query, pending, nUploads, loadPc,
                   jsonRes, csvRes, fetched, logged, mapLoaded>>

\* A snapshot step that skips validateCenters.
snapshotStepUnvalidated(resp) ==
    IF resp.kind \in {"rejected", "malformed"} THEN "catch"
    ELSE IF resp.kind = "array" /\ Len(resp.data) > 0 THEN "set"
    ELSE "fallback"

\* What the public load effect does with the snapshot response (lines
\* 207-215): "catch" (an exception reaches line 230), "set" (setCenters and
\* return) or "fallback" (go on to data/centers.csv).
snapshotStep(resp) ==
    IF resp.kind \in {"rejected", "malformed"} THEN "catch"
    ELSE IF resp.kind = "array" /\ Len(resp.data) > 0
         THEN IF validateCenters(resp.data, NoBounds) # NoError THEN "catch" ELSE "set"
    ELSE "fallback"

\* The public load effect when the request for centers.json settles
\* (fetch and res.json() are taken as one step: nothing the code does after
\* them reads the view's state).
jsonSettles(resp) ==
    /\ loadPc = "json"
    /\ jsonRes' = resp
    /\ csvRes' = csvRes
    /\ centers' = IF snapshotStep(resp) = "set" THEN resp.data ELSE centers
    /\ logged' = (snapshotStep(resp) = "catch")
    /\ loadPc' = IF snapshotStep(resp) = "fallback" THEN "csv" ELSE "done"
    /\ fetched' = IF snapshotStep(resp) = "fallback"
                  THEN fetched \cup {"data/centers.csv"}
                  ELSE fetched
    /\ Render(snapshotStep(resp) = "set", geojson(centers', query, activeTags))
    /\ UNCHANGED <<admin, csvError, query, activeTags, pending, nUploads, mapLoaded>>

\* A raw table step that calls setCenters before validateCenters.
rawTableStepSetsFirst(resp) ==
    IF resp.kind = "rejected" THEN [step |-> "catch", out |-> <<>>]
    ELSE IF resp.kind = "notOk" THEN [step |-> "skip", out |-> <<>>]
    ELSE LET p == parseCSV(resp.data.text) IN
         IF p.err # NoError THEN [step |-> "catch", out |-> <<>>]
         ELSE IF Len(p.out) = 0 THEN [step |-> "skip", out |-> <<>>]
         ELSE [step |-> "set", out |-> p.out]

\* Lines 218-229 on the raw table's response: "catch" (an exception reaches
\* line 230), "set" (setCenters(parsed)) or "skip" (neither)
rawTableStep(resp) ==
    IF resp.kind = "rejected" THEN [step |-> "catch", out |-> <<>>]
    ELSE IF resp.kind = "notOk" THEN [step |-> "skip", out |-> <<>>]
    ELSE LET p == parseCSV(resp.data.text) IN
         IF p.err # NoError THEN [step |-> "catch", out |-> <<>>]
         ELSE IF Len(p.out) = 0 THEN [step |-> "skip", out |-> <<>>]
         ELSE IF validateCenters(p.out, NoBounds) # NoError
              THEN [step |-> "catch", out |-> <<>>]
         ELSE [step |-> "set", out |-> p.out]

\* rawTableStep for each response (it depends on the response alone)
RawTableOutcome == [resp \in CsvResponses |-> rawTableStep(resp)]

\* The public load effect when the request for data/centers.csv settles
csvSettles(resp) ==
    LET r == RawTableOutcome[resp] IN
    /\ loadPc = "csv"
    /\ csvRes' = resp
    /\ centers' = IF r.step = "set" THEN r.out ELSE centers
    /\ logged' = (r.step = "catch")
    /\ loadPc' = "done"
    /\ Render(r.step = "set", geojson(centers', query, activeTags))
    /\ UNCHANGED <<admin, csvError, query, activeTags, pending, nUploads, jsonRes,
                   fetched, mapLoaded>>

\* The map's load event (lines 254-300): the source 'centers' is added with
\* the handler's geojson, and the viewport is framed from it.
mapLoad ==
    /\ ~mapLoaded
    /\ mapLoaded' = TRUE
    /\ srcData' = loadHandlerGeojson
    /\ viewport' = IF Len(loadHandlerGeojson) > 0
                   THEN FitData(coordsOf(loadHandlerGeojson))
                   ELSE FitTarget
    /\ UNCHANGED <<admin, centers, csvError, query, activeTags, pending, nUploads,
                   loadPc, jsonRes, csvRes, fetched, logged, effectError,
                   memoGeojson>>

Next ==
    \/ \E inp \in AppInputs : onPasteCSV(inp) /\ UNCHANGED harnessVars
    \/ \E f \in UploadFiles : onUploadCSV(f) /\ UNCHANGED harnessVars
    \/ \E u \in pending : uploadSettles(u) /\ UNCHANGED harnessVars
    \/ \E q \in Queries : setQuery(q) /\ UNCHANGED harnessVars
    \/ \E t \in Range(allTags(centers)) : toggleTag(t) /\ UNCHANGED harnessVars
    \/ clearTags /\ UNCHANGED harnessVars
    \/ \E resp \in JsonResponses : jsonSettles(resp) /\ UNCHANGED harnessVars
    \/ \E resp \in CsvResponses : csvSettles(resp) /\ UNCHANGED harnessVars
    \/ mapLoad /\ UNCHANGED harnessVars

Spec == Init /\ [][Next]_vars

-----------------------------------------------------------------------------
(* Parser harness: parseCSV and validateCenters applied to every text of   *)
(* HarnessInputs                                                           *)

InitParse ==
    /\ InitView
    /\ ~admin
    /\ pText \in HarnessInputs
    /\ pRes = NotParsed
    /\ pVal = NotValidated
    /\ lastStarted = NoneStarted

runParse ==
    /\ ~pRes.done
    /\ pRes' = [done |-> TRUE, err |-> parseCSV(pText.text).err,
                out |-> parseCSV(pText.text).out]
    /\ UNCHANGED <<pText, pVal, lastStarted>>
    /\ UNCHANGED appVars

runValidate ==
    /\ pRes.done
    /\ pRes.err = NoError
    /\ ~pVal.done
    /\ pVal' = [done |-> TRUE, bounded |-> validateCenters(pRes.out, TARGET_BOUNDS),
                unbounded |-> validateCenters(pRes.out, NoBounds)]
    /\ UNCHANGED <<pText, pRes, lastStarted>>
    /\ UNCHANGED appVars

NextParse == runParse \/ runValidate

SpecParse == InitParse /\ [][NextParse]_vars

-----------------------------------------------------------------------------
(* Derivation harness: the view after a published snapshot was loaded and  *)
(* the map's source exists; the visitor then types queries and clicks tags *)

MaxBatch == 2     \* records per snapshot in the derivation harness

\* Centers of a snapshot (type Center, lines 8-18): tags in both orders,
\* a padded tag, a tag that is neither literal, a shared id, and text in
\* name, address and note
DeriveCenters ==
    LET K(id, name, address, note, lat, tags) ==
            [SnapCenter(Str(id), Str(name), Num(lat), Num(12705), tags)
                EXCEPT !.address = address, !.note = note]
    IN {K(V_c1, V_A, Undefined, Undefined, 3750, <<TAG_WRITTEN>>),
        K(V_c2, V_B, Undefined, Undefined, 3743, <<TAG_PRACTICAL>>),
        K(V_c1, <<"A", "b">>, Undefined, Undefined, 3750, <<TAG_WRITTEN, TAG_PRACTICAL>>),
        K(V_c2, <<"b">>, Undefined, Str(<<"x">>), 3743, <<TAG_PRACTICAL, TAG_WRITTEN>>),
        K(V_c2, V_A, Undefined, Undefined, 3759, <<<<SP>> \o TAG_WRITTEN>>),
        K(V_c1, <<"b">>, Str(V_A), Str(V_B), 3750, <<>>),
        K(V_c2, V_B, Str(<<>>), Undefined, 3743, <<<<"x">>>>)}

DeriveBatches == UNION {[1..k -> DeriveCenters] : k \in 1..MaxBatch}

\* Texts typed into the search box (line 366)
DeriveQueries == {<<>>, <<"b">>, <<"B">>, <<SP>>, <<SP, "b">>, TAG_WRITTEN}

\* The view in public mode once centers.json was answered with a batch of
\* DeriveBatches (lines 207-213) after the map's load event: the sync
\* effect has written the batch's projection to the source.
InitDerive ==
    /\ admin = FALSE
    /\ centers \in DeriveBatches
    /\ csvError = NoError
    /\ query = <<>>
    /\ activeTags = <<>>
    /\ pending = {}
    /\ nUploads = 0
    /\ loadPc = "done"
    /\ jsonRes = Response("array", centers)
    /\ csvRes = NoResponse
    /\ fetched = {"centers.json"}
    /\ logged = FALSE
    /\ mapLoaded = TRUE
    /\ srcData = geojson(centers, <<>>, <<>>)
    /\ viewport = FitData(coordsOf(srcData))
    /\ effectError = NoError
    /\ memoGeojson = geojson(centers, <<>>, <<>>)
    /\ pText = Input(H_none, <<>>)
    /\ pRes = NotParsed
    /\ pVal = NotValidated
    /\ lastStarted = NoneStarted

NextDerive ==
    \/ \E q \in DeriveQueries : setQuery(q) /\ UNCHANGED harnessVars
    \/ \E t \in Range(allTags(centers)) : toggleTag(t) /\ UNCHANGED harnessVars
    \/ clearTags /\ UNCHANGED harnessVars

SpecDerive == InitDerive /\ [][NextDerive]_vars

-----------------------------------------------------------------------------
(* Upload harness: an admin session of uploads and pastes, with the text   *)
(* of the action started last kept for reference                           *)

InitRace ==
    /\ InitView
    /\ admin
    /\ pText = Input(H_none, <<>>)
    /\ pRes = NotParsed
    /\ pVal = NotValidated
    /\ lastStarted = NoneStarted

NextRace ==
    \/ \E inp \in AppInputs :
          /\ onPasteCSV(inp)
          /\ lastStarted' = [started |-> TRUE, inp |-> inp]
          /\ UNCHANGED <<pText, pRes, pVal>>
    \/ \E f \in UploadFiles :
          /\ onUploadCSV(f)
          /\ lastStarted' = [started |-> TRUE, inp |-> f.inp]
          /\ UNCHANGED <<pText, pRes, pVal>>
    \/ \E u \in pending : uploadSettles(u) /\ UNCHANGED harnessVars

SpecRace == InitRace /\ [][NextRace]_vars

-----------------------------------------------------------------------------
(* Properties                                                              *)

\* The invariants of a Center record (spec section 3), with or without a
\* bounding region
Section3(c, bounds) ==
    /\ c.id.t = "string" /\ c.id.s # <<>>
    /\ c.name.t = "string" /\ c.name.s # <<>>
    /\ c.lat.t = "number" /\ c.lat.k # "nan"
    /\ c.lng.t = "number" /\ c.lng.k # "nan"
    /\ bounds.def =>
         /\ c.lat.k = "fin" /\ bounds.s.n <= c.lat.n /\ c.lat.n <= bounds.n.n
         /\ c.lng.k = "fin" /\ bounds.w.n <= c.lng.n /\ c.lng.n <= bounds.e.n

AllSection3(cs, bounds) == \A i \in 1..Len(cs) : Section3(cs[i], bounds)

\* The texts an admin session can load, by paste or by upload
AdminTexts == AppInputs \cup {f.inp : f \in UploadFiles}

\* What parseCSV or validateCenters (with the jurisdiction bound) throws on
\* each admin text; NoError when neither throws
FailureOf ==
    [inp \in AdminTexts |->
        LET p == parseCSV(inp.text) IN
        IF p.err # NoError THEN p.err ELSE validateCenters(p.out, TARGET_BOUNDS)]

ParsedOf == [inp \in AdminTexts \cup {r.data : r \in {x \in CsvResponses : x.kind = "text"}}
                |-> parseCSV(inp.text)]

LatOutOfBoundsText == Input(H_full, <<R_ok2, R_lat200>>)

\* C1: in admin mode, a paste or an upload whose text fails in parseCSV or in
\* validateCenters (such as lat=200 against the jurisdiction bound) leaves
\* centers as it was and sets csvError to the failure's message.
C1_FailedLoadKeepsBatch ==
    [][/\ \A inp \in AppInputs :
             (onPasteCSV(inp) /\ FailureOf[inp] # NoError)
                 => (centers' = centers /\ csvError' = FailureOf[inp])
       /\ \A u \in pending :
             (uploadSettles(u) /\ u.file.readable /\ FailureOf[u.file.inp] # NoError)
                 => (centers' = centers /\ csvError' = FailureOf[u.file.inp])
       /\ FailureOf[LatOutOfBoundsText]
              = AssertionError("lat out of bounds: ", Str(V_c1))]_vars

\* A batch was pasted, then the lat=200 text: the batch is still there and
\* the out-of-bounds message is shown.
C1_Witness ==
    /\ admin /\ nUploads = 0
    /\ Len(centers) = 2
    /\ csvError = AssertionError("lat out of bounds: ", Str(V_c1))

\* C2: validateCenters on parseCSV's output succeeds exactly when every
\* record satisfies the section-3 invariants, with the bound and without it;
\* one violating record fails the whole batch.
C2_ValidatorIffSection3 ==
    pVal.done =>
        /\ (pVal.bounded = NoError) <=> AllSection3(pRes.out, TARGET_BOUNDS)
        /\ (pVal.unbounded = NoError) <=> AllSection3(pRes.out, NoBounds)

\* Two records, the first valid and the second not: the batch is rejected.
C2_Witness ==
    /\ pVal.done
    /\ Len(pRes.out) = 2
    /\ Section3(pRes.out[1], TARGET_BOUNDS)
    /\ ~Section3(pRes.out[2], TARGET_BOUNDS)
    /\ pVal.bounded # NoError

\* The batches an admin session may hold: the complete validated outputs
AdminBatches ==
    {<<>>} \cup {ParsedOf[inp].out :
                    inp \in {i \in AdminTexts :
                               /\ ParsedOf[i].err = NoError
                               /\ AllSection3(ParsedOf[i].out, TARGET_BOUNDS)}}

\* The batches a public session may hold
PublicBatches ==
    {<<>>}
    \cup {r.data : r \in {x \in JsonResponses :
                            x.kind = "array" /\ AllSection3(x.data, NoBounds)}}
    \cup {ParsedOf[r.data].out :
             r \in {x \in CsvResponses :
                      /\ x.kind = "text"
                      /\ ParsedOf[x.data].err = NoError
                      /\ AllSection3(ParsedOf[x.data].out, NoBounds)}}

\* C3: in every reachable state centers is the initial empty batch or the
\* complete output of one validated load: every record satisfies section 3
\* (with the jurisdiction bound in admin mode), and centers is never a
\* mixture of two batches or a prefix of one.
C3_BatchIsOneValidatedLoad ==
    /\ AllSection3(centers, IF admin THEN TARGET_BOUNDS ELSE NoBounds)
    /\ centers \in (IF admin THEN AdminBatches ELSE PublicBatches)

\* An uploaded batch replaced the pasted one, and a later load failed.
C3_Witness ==
    /\ admin
    /\ nUploads = 2 /\ pending = {}
    /\ centers = ParsedOf[Input(H_full, <<R_ok2, R_ok1>>)].out
    /\ csvError # NoError

\* C4: once the map has fired load and no load or effect is pending, the
\* data of the source 'centers' is the current projection.
C4_SourceShowsProjection ==
    (mapLoaded /\ pending = {} /\ loadPc \in {"idle", "done"})
        => srcData = geojson(centers, query, activeTags)

SnapshotUsable(resp) ==
    resp.kind = "array" /\ Len(resp.data) > 0 /\ AllSection3(resp.data, NoBounds)

SnapshotUnavailableOrEmpty(resp) ==
    \/ resp.kind \in {"rejected", "notOk"}
    \/ resp.kind = "array" /\ Len(resp.data) = 0

RawTableUsable(resp) ==
    /\ resp.kind = "text"
    /\ ParsedOf[resp.data].err = NoError
    /\ AllSection3(ParsedOf[resp.data].out, NoBounds)

\* C5: when the public resolver has finished, the snapshot was requested; a
\* usable snapshot is the batch and the raw table was not requested; after
\* an unavailable or empty snapshot the raw table was requested, a usable
\* raw table is the batch, and with both unavailable the batch is empty and
\* no error is shown.
C5_ResolverOrder ==
    (~admin /\ loadPc = "done") =>
        /\ "centers.json" \in fetched
        /\ SnapshotUsable(jsonRes)
              => (centers = jsonRes.data /\ "data/centers.csv" \notin fetched)
        /\ SnapshotUnavailableOrEmpty(jsonRes)
              => /\ "data/centers.csv" \in fetched
                 /\ RawTableUsable(csvRes) => centers = ParsedOf[csvRes.data].out
                 /\ csvRes.kind \in {"rejected", "notOk"}
                       => (centers = <<>> /\ csvError = NoError)

\* The data rows of an input, in order
DataRows(inp) == SelectSeq(inp.rows, LAMBDA r : r.kind = "data")

\* The value the file holds for a column name in a row: the cell under the
\* first header label that is the name (trimmed, case-insensitive), trimmed
CellFor(hdr, row, name) ==
    LET js == {j \in 1..Len(hdr) : ToLowerCase(Trim(hdr[j].label)) = name} IN
    IF js = {} THEN <<>>
    ELSE Trim(CellOf(row, hdr[CHOOSE j \in js : \A k \in js : j <= k].key))

\* The record a row stands for: every field is its cell's value
ExpectedRecord(hdr, row) ==
    [id |-> Str(CellFor(hdr, row, S_id)), name |-> Str(CellFor(hdr, row, S_name)),
     address |-> Str(CellFor(hdr, row, S_address)),
     lat |-> Number(CellFor(hdr, row, S_lat)),
     lng |-> Number(CellFor(hdr, row, S_lng)),
     phone |-> Str(CellFor(hdr, row, S_phone)),
     hours |-> Str(CellFor(hdr, row, S_hours)),
     note |-> Str(CellFor(hdr, row, S_note)),
     tags |-> tagsOf(CellFor(hdr, row, S_tags))]

\* C6: cell splitting is quote-aware: every record of a parsed text holds,
\* field by field, the values of its row's cells, also when a quoted cell
\* holds a comma or a doubled quote.
C6_CellsQuoteAware ==
    (pRes.done /\ pRes.err = NoError) =>
        pRes.out = [k \in 1..Len(DataRows(pText)) |->
                       ExpectedRecord(pText.hdr, DataRows(pText)[k])]

\* C7: row splitting is quote-aware: a parsed text yields one record per
\* data row, and a newline inside a quoted name stays in the name.
C7_RowsQuoteAware ==
    (pRes.done /\ pRes.err = NoError) =>
        /\ Len(pRes.out) = Len(DataRows(pText))
        /\ \A k \in 1..Len(DataRows(pText)) :
              NL \in Range(DataRows(pText)[k].name)
                  => (k <= Len(pRes.out) /\ NL \in Range(pRes.out[k].name.s))

\* A text of three physical lines after the header and two data rows
C7_Witness ==
    /\ pRes.done /\ pRes.err = NoError
    /\ pText.rows = <<R_nlName, R_ok2>>
    /\ Len(pRes.out) = 2
    /\ pRes.out[1].name = Str(V_AnlB)

\* Numeric text: an optional sign, digits, at most one decimal point
IsNumericText(v) ==
    LET t == Trim(v)
        u == IF t # <<>> /\ Head(t) \in {"+", "-"} THEN Tail(t) ELSE t
        dots == {i \in 1..Len(u) : u[i] = "."}
    IN /\ Cardinality(dots) <= 1
       /\ \A i \in (1..Len(u)) \ dots : u[i] \in Digits
       /\ \E i \in 1..Len(u) : u[i] \in Digits

HasInvalidCoordinate(inp) ==
    \E k \in 1..Len(inp.rows) :
        /\ inp.rows[k].kind = "data"
        /\ ~IsNumericText(inp.rows[k].lat) \/ ~IsNumericText(inp.rows[k].lng)

\* C8: a text with a row whose lat or lng cell is not numeric text never
\* becomes the batch, on the admin path and on the public raw-table path.
C8_InvalidCoordinateRejected ==
    /\ (~admin /\ csvRes.kind = "text" /\ HasInvalidCoordinate(csvRes.data))
           => centers = <<>>
    /\ (admin /\ centers # <<>>)
           => \A inp \in AdminTexts :
                 HasInvalidCoordinate(inp) => centers # ParsedOf[inp].out

IsBlankText(text) == \A i \in 1..Len(text) : text[i] \in WhiteSpace

\* C9: parsing a text of zero characters or of blank lines only returns the
\* empty sequence and raises no error.
C9_EmptyInputParsesToEmpty ==
    (pRes.done /\ IsBlankText(pText.text))
        => (pRes.err = NoError /\ pRes.out = <<>>)

HeaderNames(hdr) == {ToLowerCase(Trim(hdr[j].label)) : j \in 1..Len(hdr)}

\* C10: the first row is the header, matched after trimming and without
\* regard to case; the parse succeeds when id, name, lat and lng are all
\* there, and otherwise fails with the header message and no records.
C10_HeaderCheck ==
    (pRes.done /\ pText.hdr # <<>>) =>
        IF {S_id, S_name, S_lat, S_lng} \subseteq HeaderNames(pText.hdr)
        THEN pRes.err = NoError
        ELSE /\ pRes.err = AssertionError("CSV header must include id,name,lat,lng",
                                          Undefined)
             /\ pRes.out = <<>>

\* A header without lat above two good data rows
C10_Witness ==
    /\ pRes.done
    /\ pText.hdr = H_noLat /\ pText.rows = <<R_ok1, R_ok2>>
    /\ pRes.err = AssertionError("CSV header must include id,name,lat,lng", Undefined)
    /\ pRes.out = <<>>

\* Whether record c carries one of the tags of the active list
CarriesActive(c, active) == Range(c.tags) \cap Range(active) # {}

\* The records that passed the text stage: the visible records when no tag
\* is active
PassedText == filtered(centers, query, <<>>)

\* C11: tag filtering has OR semantics. With one or more tags active, the
\* projection shows exactly the records that passed the text stage and carry
\* at least one active tag; with no tag active it shows every record that
\* passed the text stage; when no record carries an active tag, no record is
\* visible and the projection is empty.
C11_TagFilterIsOr ==
    LET visible == filtered(centers, query, activeTags) IN
    /\ srcData = features(visible)
    /\ Len(activeTags) > 0 =>
          visible = SelectSeq(PassedText, LAMBDA c : CarriesActive(c, activeTags))
    /\ Len(activeTags) = 0 => visible = PassedText
    /\ (Len(activeTags) > 0
        /\ \A i \in 1..Len(centers) : ~CarriesActive(centers[i], activeTags))
          => visible = <<>> /\ srcData = <<>>

\* Two tags are active, and a record carrying only one of them is shown
\* while a record carrying neither is hidden.
C11_Witness ==
    /\ Len(activeTags) = 2
    /\ \E i \in 1..Len(srcData) : \E c \in Range(centers) :
          /\ featureOf(c) = srcData[i]
          /\ Cardinality(Range(c.tags) \cap Range(activeTags)) = 1
    /\ Len(srcData) < Len(PassedText)

\* The examType the claims give a record: by a fixed priority over its tags,
\* compared as stored (exact) or after trimming
ExamTypeByTags(tags) ==
    IF TAG_PRACTICAL \in tags THEN TAG_PRACTICAL
    ELSE IF TAG_WRITTEN \in tags THEN TAG_WRITTEN
    ELSE TYPE_OTHER

\* The visible records, in order: feature i of the projection is made from
\* record i of this list
Visible == filtered(centers, query, activeTags)

\* C12 as stated: every feature's examType is the practical literal if any
\* tag of its record equals that literal, else the written literal if any
\* tag equals it, else the third literal.
C12_ExamTypeByEqualTag ==
    /\ Len(srcData) = Len(Visible)
    /\ \A i \in 1..Len(srcData) :
          srcData[i].examType = ExamTypeByTags(Range(Visible[i].tags))

\* C12 amended: the same priority, with every tag compared after trimming;
\* a record holding both tags is practical in either order of its tags.
C12_ExamTypeByTrimmedTag ==
    /\ Len(srcData) = Len(Visible)
    /\ \A i \in 1..Len(srcData) :
          LET trimmed == {Trim(t) : t \in Range(Visible[i].tags)} IN
          /\ srcData[i].examType = ExamTypeByTags(trimmed)
          /\ {TAG_PRACTICAL, TAG_WRITTEN} \subseteq trimmed
                => srcData[i].examType = TAG_PRACTICAL

\* After a click on the written tag's button the projection shows a record
\* whose first tag is the written literal and
\* whose second is the practical one, classified practical, next to a record
\* with the tags in the other order.
C12_Witness ==
    /\ activeTags = <<TAG_WRITTEN>>
    /\ Len(srcData) = 2
    /\ Visible[1].tags = <<TAG_WRITTEN, TAG_PRACTICAL>>
    /\ Visible[2].tags = <<TAG_PRACTICAL, TAG_WRITTEN>>
    /\ srcData[1].examType = TAG_PRACTICAL
    /\ srcData[2].examType = TAG_PRACTICAL

\* The string the text stage searches: name, address, note and every tag of
\* the record joined with single spaces, case-folded
FoldedText(c) ==
    ToLowerCase(Join(<<JoinText(c.name), JoinText(c.address), JoinText(c.note)>>
                     \o c.tags, <<SP>>))

\* The tag stage applied to the records rs
TagStage(rs) ==
    IF Len(activeTags) > 0
    THEN SelectSeq(rs, LAMBDA c : CarriesActive(c, activeTags))
    ELSE rs

\* C13 as stated: a non-empty query keeps exactly the records whose folded
\* text contains the case-folded query, an empty query keeps every record,
\* and the tag stage is applied to what the text stage kept.
C13_TextStageByQuery ==
    LET q == ToLowerCase(query)
        kept == IF query # <<>>
                THEN SelectSeq(centers, LAMBDA c : Includes(FoldedText(c), q))
                ELSE centers
    IN srcData = features(TagStage(kept))

\* C13 amended: the query is trimmed before it is case-folded; a query that
\* is empty after trimming keeps every record, any other query keeps exactly
\* the records whose folded text contains the trimmed, case-folded query.
C13_TextStageByTrimmedQuery ==
    LET q == ToLowerCase(Trim(query))
        kept == IF q # <<>>
                THEN SelectSeq(centers, LAMBDA c : Includes(FoldedText(c), q))
                ELSE centers
    IN srcData = features(TagStage(kept))

\* An upper-case query shows a record whose name has the letter in lower
\* case and hides a record without the letter.
C13_Witness ==
    /\ query = <<"B">>
    /\ Len(centers) = 2
    /\ Len(srcData) = 1
    /\ srcData[1].name = Str(<<"b">>)

\* The trimmed tags of every record of the active batch
BatchTags == UNION {{Trim(t) : t \in Range(centers[i].tags)} : i \in 1..Len(centers)}

\* C14: the tag universe holds exactly the trimmed tags of the whole active
\* batch, each once, in strictly ascending order, whatever batch is active
\* and whatever filter applies.
C14_TagUniverse ==
    LET universe == allTags(centers) IN
    /\ Range(universe) = BatchTags
    /\ \A i, j \in 1..Len(universe) : i < j => StrLess(universe[i], universe[j])

\* A batch with two tags is active while the query hides every tagged
\* record: the universe still lists both tags.
C14_Witness ==
    /\ Len(centers) = 2
    /\ \A i \in 1..Len(srcData) : srcData[i].tags = <<>>
    /\ Len(srcData) = 1
    /\ query = <<"b">>
    /\ allTags(centers) = <<TAG_WRITTEN, TAG_PRACTICAL>>

\* The three literals of examType
ExamTypes == {TAG_PRACTICAL, TAG_WRITTEN, TYPE_OTHER}

\* C15: the projection has one feature per visible record, in the same
\* order; feature i carries the coordinates [lng, lat] of record i, one of
\* the three examType literals, and the record's tags joined with ", ".
\* Records sharing an id each have their feature.
C15_OneFeaturePerVisible ==
    /\ Len(srcData) = Len(Visible)
    /\ \A i \in 1..Len(srcData) :
          /\ srcData[i].id = Visible[i].id
          /\ srcData[i].name = Visible[i].name
          /\ srcData[i].coordinates = <<Visible[i].lng, Visible[i].lat>>
          /\ srcData[i].examType \in ExamTypes
          /\ srcData[i].tags = Join(Visible[i].tags, <<COMMA, SP>>)

\* Two visible records share an id and differ in name: the projection has a
\* feature for each, the second with both tags joined by ", ".
C15_Witness ==
    /\ Len(activeTags) > 0
    /\ Len(srcData) = 2
    /\ srcData[1].id = srcData[2].id
    /\ srcData[1].name # srcData[2].name
    /\ srcData[2].tags = TAG_WRITTEN \o <<COMMA, SP>> \o TAG_PRACTICAL

\* The six checks of the Validator on record c, in the order the claim
\* gives: id, name, lat, lng, lat in bound, lng in bound
ChecksInOrder(c, bounds) ==
    <<c.id.t = "string" /\ c.id.s # <<>>,
      c.name.t = "string" /\ c.name.s # <<>>,
      c.lat.t = "number" /\ c.lat.k # "nan",
      c.lng.t = "number" /\ c.lng.k # "nan",
      bounds.def => (c.lat.k = "fin" /\ bounds.s.n <= c.lat.n /\ c.lat.n <= bounds.n.n),
      bounds.def => (c.lng.k = "fin" /\ bounds.w.n <= c.lng.n /\ c.lng.n <= bounds.e.n)>>

\* The message of each check: it names the field
FieldMessages ==
    <<"invalid id for ", "invalid name for ", "lat must be number: ",
      "lng must be number: ", "lat out of bounds: ", "lng out of bounds: ">>

\* The error a fail-fast Validator reports on cs: none when every record
\* passes every check, else the first failing check of the first failing
\* record, naming the record by its name (id check) or by its id
FirstViolation(cs, bounds) ==
    LET bad == {i \in 1..Len(cs) : \E k \in 1..6 : ~ChecksInOrder(cs[i], bounds)[k]} IN
    IF bad = {} THEN NoError
    ELSE LET i == CHOOSE x \in bad : \A y \in bad : x <= y
             failing == {k \in 1..6 : ~ChecksInOrder(cs[i], bounds)[k]}
             k == CHOOSE x \in failing : \A y \in failing : x <= y
         IN Err("Test failed: " \o FieldMessages[k], IF k = 1 THEN cs[i].name ELSE cs[i].id)

\* C16: the Validator reports the first violation in input order and, within
\* the record, in the order id, name, lat, lng, lat in bound, lng in bound;
\* the message names the field and carries the record's id (its name for the
\* id check).
C16_FailsFast ==
    pVal.done =>
        /\ pVal.bounded = FirstViolation(pRes.out, TARGET_BOUNDS)
        /\ pVal.unbounded = FirstViolation(pRes.out, NoBounds)

\* Two records that both fail; the first fails the lng check and the lat
\* bound, and the error is the lng check's on the first record.
C16_Witness ==
    /\ pVal.done
    /\ Len(pRes.out) = 2
    /\ pRes.out[1].id # pRes.out[2].id
    /\ ~ChecksInOrder(pRes.out[1], TARGET_BOUNDS)[4]
    /\ ~ChecksInOrder(pRes.out[1], TARGET_BOUNDS)[5]
    /\ ~ChecksInOrder(pRes.out[2], TARGET_BOUNDS)[1]
    /\ pVal.bounded = AssertionError("lng must be number: ", pRes.out[1].id)

\* id and name are non-empty strings, lat and lng are numbers and not NaN
BasicallyValid(c) == \A k \in 1..4 : ChecksInOrder(c, NoBounds)[k]

\* south <= lat <= north and west <= lng <= east, edges included
InRange(c, bounds) ==
    /\ c.lat.k = "fin" /\ bounds.s.n <= c.lat.n /\ c.lat.n <= bounds.n.n
    /\ c.lng.k = "fin" /\ bounds.w.n <= c.lng.n /\ c.lng.n <= bounds.e.n

\* C17: without a bound a batch of basically valid records passes, whatever
\* its coordinates; with the jurisdiction bound such a batch passes exactly
\* when every record lies in the closed range.
C17_RangeCheckOnlyWithBound ==
    (pVal.done /\ \A i \in 1..Len(pRes.out) : BasicallyValid(pRes.out[i])) =>
        /\ pVal.unbounded = NoError
        /\ pVal.bounded = NoError
              <=> \A i \in 1..Len(pRes.out) : InRange(pRes.out[i], TARGET_BOUNDS)

\* The first record lies on the south and east edges and passes the range
\* check; the second has latitude 200: the batch passes without a bound and
\* is rejected for the second record with it.
C17_Witness ==
    /\ pVal.done
    /\ Len(pRes.out) = 2
    /\ pRes.out[1].lat = TARGET_BOUNDS.s
    /\ pRes.out[1].lng = TARGET_BOUNDS.e
    /\ pRes.out[2].lat = Num(20000)
    /\ pVal.unbounded = NoError
    /\ pVal.bounded = AssertionError("lat out of bounds: ", pRes.out[2].id)

\* The failures of the two requests of the public load: a rejected fetch, a
\* response that is not OK, a document that is not JSON, a text parseCSV
\* rejects, records validateCenters rejects
SnapshotThrows(resp) ==
    \/ resp.kind \in {"rejected", "malformed"}
    \/ resp.kind = "array" /\ Len(resp.data) > 0 /\ ~AllSection3(resp.data, NoBounds)

SnapshotFailed(resp) == resp.kind = "notOk" \/ SnapshotThrows(resp)

RawTableThrows(resp) ==
    \/ resp.kind = "rejected"
    \/ /\ resp.kind = "text"
       /\ \/ ParsedOf[resp.data].err # NoError
          \/ ~AllSection3(ParsedOf[resp.data].out, NoBounds)

RawTableFailed(resp) == resp.kind = "notOk" \/ RawTableThrows(resp)

\* A step of the public load that ends in one of these failures
FailedLoadStep ==
    \/ loadPc = "json" /\ loadPc' # "json" /\ SnapshotFailed(jsonRes')
    \/ loadPc = "csv" /\ loadPc' = "done" /\ RawTableFailed(csvRes')

ThrowingLoadStep ==
    \/ loadPc = "json" /\ loadPc' # "json" /\ SnapshotThrows(jsonRes')
    \/ loadPc = "csv" /\ loadPc' = "done" /\ RawTableThrows(csvRes')

\* The visitor can still type a query
AcceptsUserEvents == ENABLED (\E q \in Queries : setQuery(q))

CurrentProjection == geojson(centers, query, activeTags)

\* C19: at the step in which the map's load event fires, the viewport is
\* framed to the coordinates of the projection current at that moment, with
\* padding 40, when that projection has a feature, and to the jurisdiction
\* bound otherwise.
C19_LoadFramesCurrentProjection ==
    [][(~mapLoaded /\ mapLoaded') =>
          viewport' = IF Len(CurrentProjection) > 0
                      THEN [kind |-> "data", padding |-> 40,
                            coords |-> coordsOf(CurrentProjection)]
                      ELSE [kind |-> "target", padding |-> 20, coords |-> <<>>]]_vars

\* C20: once the source exists, a step that changes the projection writes
\* the whole new projection to the source; it frames the viewport to the
\* new coordinates (padding 40) when the new projection has a feature and
\* leaves the viewport as it was when the new projection is empty.
C20_ChangeReplacesAndReframes ==
    [][LET new == geojson(centers', query', activeTags') IN
       (mapLoaded /\ new # CurrentProjection) =>
          /\ srcData' = new
          /\ viewport' = IF Len(new) > 0
                         THEN [kind |-> "data", padding |-> 40, coords |-> coordsOf(new)]
                         ELSE viewport]_vars

\* A query has emptied the projection of a loaded batch: the source's data
\* is empty and the viewport is still the framing of the batch's data.
C20_Witness ==
    /\ mapLoaded
    /\ Len(centers) > 0
    /\ query # <<>>
    /\ CurrentProjection = <<>>
    /\ srcData = <<>>
    /\ viewport = [kind |-> "data", padding |-> 40,
                   coords |-> coordsOf(geojson(centers, <<>>, <<>>))]

\* C21: a step taken while the source 'centers' does not exist leaves the
\* source's data and the viewport alone, whatever it does to the
\* projection; a step that pushes an empty projection replaces the data and
\* leaves the viewport alone; and no effect ever throws.
C21_SyncToleratesMissingSurface ==
    /\ [](effectError = NoError)
    /\ [][LET new == geojson(centers', query', activeTags') IN
          /\ (~mapLoaded /\ ~mapLoaded') => (srcData' = srcData /\ viewport' = viewport)
          /\ (mapLoaded /\ new # CurrentProjection /\ new = <<>>)
                => (srcData' = <<>> /\ viewport' = viewport)]_vars

\* The batch was loaded and filtered by a query before the map's load
\* event: the projection has a feature, the source has no data, the
\* viewport is the one set at construction and nothing was thrown.
C21_Witness ==
    /\ ~mapLoaded
    /\ query # <<>>
    /\ Len(CurrentProjection) > 0
    /\ Len(CurrentProjection) < Len(centers)
    /\ srcData = <<>>
    /\ viewport = [kind |-> "target", padding |-> 20, coords |-> <<>>]
    /\ effectError = NoError

\* C22: when every upload has completed and the upload or paste started
\* last was one whose text parses and validates, the active batch is the
\* batch of that last action, whatever upload was still pending when it
\* was started.
C22_LastStartedWins ==
    (pending = {} /\ lastStarted.started /\ FailureOf[lastStarted.inp] = NoError)
        => centers = ParsedOf[lastStarted.inp].out

\* A row that encodes a valid Center: id and name are not blank, lat and
\* lng are numerals, and the tags cell is a list of non-empty tags without
\* surrounding whitespace or separators, joined by ';'
IsCenterRow(row) ==
    /\ row.kind = "data"
    /\ Trim(row.id) # <<>>
    /\ Trim(row.name) # <<>>
    /\ IsNumericText(row.lat)
    /\ IsNumericText(row.lng)
    /\ row.tags # <<>> =>
          \A t \in Range(Split(row.tags, {";"})) :
              t # <<>> /\ Trim(t) = t /\ Range(t) \cap {"|", ","} = {}

\* The Center such a row encodes, its text fields trimmed
CenterOfRow(row) ==
    [id |-> Str(Trim(row.id)), name |-> Str(Trim(row.name)), address |-> Str(<<>>),
     lat |-> Number(Trim(row.lat)), lng |-> Number(Trim(row.lng)),
     phone |-> Str(<<>>), hours |-> Str(<<>>), note |-> Str(<<>>),
     tags |-> IF row.tags = <<>> THEN <<>> ELSE Split(row.tags, {";"})]

\* C23: a list of valid Centers written under the header
\* id,name,address,lat,lng,phone,hours,note,tags (tags joined by ';', cells
\* quoted when they hold a comma, a quote or a newline) parses without error
\* to the same Centers, in order, with the same fields and tag order.
C23_RoundTrip ==
    (pRes.done /\ pText.hdr = H_all /\ \A k \in 1..Len(pText.rows) : IsCenterRow(pText.rows[k]))
        => /\ pRes.err = NoError
           /\ pRes.out = [k \in 1..Len(pText.rows) |-> CenterOfRow(pText.rows[k])]

\* The batches an upload or a paste can set
LoadableBatches == {ParsedOf[inp].out : inp \in {x \in AdminTexts : FailureOf[x] = NoError}}

\* C25: the mode never changes.  In admin mode nothing is fetched and a step
\* changes the batch only by setting the batch of a pasted or uploaded text
\* (a paste, or the completion of a pending upload); in public mode no paste
\* or upload can be started and a step changes the batch only by ending the
\* startup load.
C25_ModeDecidedOnce ==
    /\ [](admin => (fetched = {} /\ loadPc = "idle"))
    /\ [](~admin => /\ ~ENABLED (\E inp \in AppInputs : onPasteCSV(inp))
                    /\ ~ENABLED (\E f \in UploadFiles : onUploadCSV(f))
                    /\ pending = {} /\ nUploads = 0)
    /\ [][/\ admin' = admin
          /\ (admin /\ centers' # centers) =>
                /\ centers' \in LoadableBatches
                /\ pending' = pending \/ (pending' # pending /\ nUploads' = nUploads)
                /\ fetched' = {}
          /\ (~admin /\ centers' # centers) =>
                (loadPc \in {"json", "csv"} /\ loadPc' = "done")]_vars

\* An admin session in which every upload has completed, the batch is an
\* uploaded one and nothing was fetched.
C25_Witness ==
    /\ admin
    /\ nUploads > 0
    /\ pending = {}
    /\ Len(centers) = 2
    /\ centers[1].id = Str(V_c2)
    /\ fetched = {}
    /\ jsonRes = NoResponse

\* C26: a step that changes the query or the tag selection leaves the batch
\* and csvError as they are; in every state the projection held by the view
\* is the projection of the visible records of the current batch, query and
\* tag selection; and a step changes the projection only if it changes one
\* of the three.
C26_ProjectionIsDerived ==
    /\ [](memoGeojson = features(Visible))
    /\ [][/\ (query' # query \/ activeTags' # activeTags)
                => (centers' = centers /\ csvError' = csvError)
          /\ memoGeojson' # memoGeojson
                => <<centers', query', activeTags'>> # <<centers, query, activeTags>>]_vars

\* An admin session with a failed load's error on display and a loaded batch
\* narrowed by query and by tag: the error is still shown and the projection holds fewer features
\* than the batch has records.
C26_Witness ==
    /\ csvError # NoError
    /\ query # <<>>
    /\ Len(activeTags) > 0
    /\ Len(memoGeojson) < Len(centers)
    /\ memoGeojson = features(Visible)

-----------------------------------------------------------------------------
(* Tag cells *)

TagSeparators == {";", "|", ","}

\* The tags cell of every data row as the row splitter hands it to the tag
\* step: val(tagsI) of the non-blank rows after the header.
TagsCells(text) ==
    LET rows == splitRows(text)
        header == headerOf(rows[1])
        data == SelectSeq(Tail(rows), LAMBDA r : Trim(r) # <<>>)
    IN [k \in 1..Len(data) |-> val(splitRow(data[k]), FindIndex(header, S_tags))]

\* The pieces of v between consecutive separators, in order.
TagPieces(v) ==
    LET cuts == {0, Len(v) + 1} \cup {i \in 1..Len(v) : v[i] \in TagSeparators}
        cut(k) == CHOOSE c \in cuts : Cardinality({d \in cuts : d < c}) = k - 1
    IN [k \in 1..(Cardinality(cuts) - 1) |-> SubSeq(v, cut(k) + 1, cut(k + 1) - 1)]

TrimmedPieces(v) ==
    LET pieces == TagPieces(v) IN
    SelectSeq([k \in 1..Len(pieces) |-> Trim(pieces[k])], LAMBDA t : Len(t) > 0)

CleanTag(t) ==
    /\ Len(t) > 0
    /\ t[1] \notin WhiteSpace /\ t[Len(t)] \notin WhiteSpace
    /\ \A i \in 1..Len(t) : t[i] \notin TagSeparators

-----------------------------------------------------------------------------
(* Tag identity *)

\* The records of the batch that put t into the tag universe
Contributors(t) ==
    SelectSeq(centers, LAMBDA c : \E j \in 1..Len(c.tags) : Trim(c.tags[j]) = t)

\* C28: the tag universe and the tag filter agree on tag identity: with an
\* empty query and a single active tag t taken from the tag universe, the
\* visible records are exactly the records that contributed t to the universe.
C28_UniverseAndFilterAgree ==
    (query = <<>> /\ Len(activeTags) = 1 /\ activeTags[1] \in Range(allTags(centers)))
        => Visible = Contributors(activeTags[1])

-----------------------------------------------------------------------------
(* Active tags and the tag controls *)

\* C29: every active tag is a member of the current tag universe, so while a
\* tag is active the sidebar offers the clear button, and the records of the
\* batch are not hidden by a tag that no control can deactivate.
C29_ActiveTagsInUniverse ==
    /\ Range(activeTags) \subseteq Range(allTags(centers))
    /\ Len(activeTags) > 0 => ENABLED clearTags

-----------------------------------------------------------------------------
(* Toggle algebra *)

\* C30: the active tag list never holds a tag twice; a step that changes it
\* either empties it (clearTags) or toggles one tag of the universe: appends
\* the tag when absent, removes it when present, every other tag's membership
\* and order kept; and toggling any tag twice in succession gives back the
\* same set of active tags.
C30_ToggleAlgebra ==
    /\ [](/\ Cardinality(Range(activeTags)) = Len(activeTags)
          /\ \A t \in Range(allTags(centers)) :
                /\ Range(toggled(toggled(activeTags, t), t)) = Range(activeTags)
                /\ t \in Range(toggled(activeTags, t)) <=> t \notin Range(activeTags)
                /\ \A u \in Range(allTags(centers)) \ {t} :
                      u \in Range(toggled(activeTags, t)) <=> u \in Range(activeTags))
    /\ [][activeTags' # activeTags =>
             \/ activeTags' = <<>>
             \/ \E t \in Range(allTags(centers)) :
                   \/ t \notin Range(activeTags) /\ activeTags' = Append(activeTags, t)
                   \/ /\ t \in Range(activeTags)
                      /\ activeTags' = SelectSeq(activeTags, LAMBDA x : x # t)
                      /\ Range(activeTags') = Range(activeTags) \ {t}]_vars

\* Three tags are active at once, each added by its own toggle, and a toggle
\* of the first would remove it and keep the other two.
C30_Witness ==
    /\ Len(activeTags) = 3
    /\ Len(toggled(activeTags, activeTags[1])) = 2
    /\ ENABLED clearTags

====
